---- MODULE Spec2Model ----
(***************************************************************************)
(* A model of the OMR sheet server (adjmohan/eomr): the upload route, the  *)
(* per-sheet pipeline processOMRImage, the storage layer's sheet and batch *)
(* tables, the PATCH override, the batch summary endpoints and the score   *)
(* helpers.                                                                *)
(*                                                                         *)
(* Numbers.  JavaScript numbers are modelled as scaled integers:           *)
(*   - a Math.random() draw r is an integer in 0..9999 standing for        *)
(*     r / 10^4;                                                           *)
(*   - a confidence is an integer standing for c / 10^5 (0.8 is 80000);    *)
(*   - a score is an integer standing for s / 10^2 (4.5 is 450);           *)
(*   - a time is a count of elapsed timer periods.                         *)
(* An optional value (SQL NULL, a missing key, undefined) is the empty     *)
(* set, a present value v is {v}.                                          *)
(***************************************************************************)
EXTENDS Integers, Sequences, FiniteSets, TLC

----------------------------------------------------------------------------
(* Bounds of the model. *)

\* Upload requests the server accepts in one run.
MaxUploads == 1
\* Files in one upload request (0 files is the 400 case).
MaxFiles == 1
\* Rows of omr_sheets over the whole run.
MaxSheets == 1
\* PATCH /api/sheets/:sheetId requests in one run.
MaxPatches == 1
\* Direct invocations of the exported processOMRImage on an existing sheet.
MaxReinvocations == 1
\* Files of the upload whose batch the clients of the summary endpoints poll.
PolledSheets == 2
\* Length of the response list handed to OMRUtils.calculateOverallScore.
MaxResponses == 3
\* Files of the one upload whose pipelines run side by side.
ParallelSheets == 2
\* Upload requests for one batch code that are in flight together or follow one
\* another, and the files they carry in all.
BatchUploads == 2
BatchFiles == 2
\* Largest width and height, in pixels, of an image handed to preprocessImage
\* (4 x 3 has two interior pixels side by side).
SourceWidth == 4
SourceHeight == 3

\* The batch codes clients use.
BatchCodes == {"B1"}

\* The values Math.random() yields (in 1/10^4): a detection consumes a stream
\* of draws; the model offers the constant streams over these values and one
\* stream that alternates between the extremes 0 and 9999.
\*   3330 gives an overall confidence of 0.7999 and a score of 4.00,
\*   3333 an overall confidence of exactly 0.8000 and a score of 4.00,
\*   the alternating stream a confidence of 0.8800 and a score of 4.40.
RandomValues == {3330, 3333}

----------------------------------------------------------------------------
(* Optional values. *)

Null == {}
Some(v) == {v}
IsNull(o) == o = {}
Get(o) == CHOOSE v \in o : TRUE

----------------------------------------------------------------------------
(* Arithmetic. *)

\* Math.round(a / b) for b > 0: the nearest integer, a half rounded towards
\* +infinity, which is floor(a/b + 1/2).
MathRound(a, b) == (2 * a + b) \div (2 * b)

RECURSIVE SumSeq(_)
SumSeq(s) == IF s = <<>> THEN 0 ELSE Head(s) + SumSeq(Tail(s))

Min(a, b) == IF a < b THEN a ELSE b
Max(a, b) == IF a > b THEN a ELSE b

RECURSIVE Gcd(_, _)
Gcd(a, b) == IF b = 0 THEN a ELSE Gcd(b, a % b)

----------------------------------------------------------------------------
(* simulateOMRDetection: the simulated detector and its aggregation. *)

\* The five feedback questions.
NumQuestions == 5
QuestionText ==
  <<"Course Content Quality", "Teaching Effectiveness", "Learning Materials",
    "Assessment Methods", "Overall Satisfaction">>

\* Draws one detection consumes: three per question (base score, confidence,
\* x coordinate), then image quality and skew angle.
DrawsPerQuestion == 3
NumDraws == NumQuestions * DrawsPerQuestion + 2
RandomStreams ==
  { [i \in 1..NumDraws |-> v] : v \in RandomValues }
    \cup { [i \in 1..NumDraws |-> IF i % 2 = 0 THEN 9999 ELSE 0] }

\* One OMRResponse, from the three draws of question q.
\*   baseScore = 3.5 + r * 1.5; response = round(max(1, min(5, baseScore)))
\*   confidence = 0.7 + r * 0.3
\*   x = 50 + r * 400, y = 100 + q * 80
DetectResponse(stream, q) ==
  LET d == (q - 1) * DrawsPerQuestion
      baseScore == 350000 + 15 * stream[d + 1]
  IN [ questionId |-> q,
       questionText |-> QuestionText[q],
       response |-> MathRound(Max(100000, Min(500000, baseScore)), 100000),
       confidence |-> 70000 + 3 * stream[d + 2],
       coordinates |-> [ x |-> 5000 + 4 * stream[d + 3],
                         y |-> 100 + q * 80,
                         width |-> 20,
                         height |-> 20 ] ]

\* overallScore = sum of response / responses.length, then
\* Math.round(overallScore * 100) / 100 (in 1/100).
DetectionScore(responses) ==
  MathRound(100 * SumSeq([i \in 1..Len(responses) |-> responses[i].response]),
            Len(responses))

\* An aggregation that leaves the responses of low confidence (below 0.8) out
\* of the sum and of the denominator.
DetectionConfidenceOfConfident(responses) ==
  LET confident == SelectSeq(responses, LAMBDA r : r.confidence >= 80000)
  IN IF Len(confident) = 0 THEN 0
     ELSE 10 * MathRound(SumSeq([i \in 1..Len(confident) |-> confident[i].confidence]),
                         10 * Len(confident))

\* confidence = sum of confidence / responses.length, then
\* Math.round(confidence * 10000) / 10000 (in 1/10^5, a multiple of 10).
DetectionConfidence(responses) ==
  10 * MathRound(SumSeq([i \in 1..Len(responses) |-> responses[i].confidence]),
                 10 * Len(responses))

SimulateOMRDetection(stream) ==
  LET responses == [q \in 1..NumQuestions |-> DetectResponse(stream, q)]
  IN [ responses |-> responses,
       overallScore |-> DetectionScore(responses),
       confidence |-> DetectionConfidence(responses),
       processingTime |-> 0,
       metadata |-> [ imageQuality |-> 80000 + 2 * stream[NumDraws - 1],
                      detectedMarks |-> Len(responses),
                      skewAngle |-> 5 * (stream[NumDraws] - 5000) ] ]

DetectionResults == { SimulateOMRDetection(st) : st \in RandomStreams }

----------------------------------------------------------------------------
(* OMRUtils.calculateOverallScore (client). *)

\* A response handed to the utility: its rating, or no rating (null).
Ratings == 1..5
UtilResponses == { Null } \cup { Some(v) : v \in Ratings }

\* response.response || 0
ResponseOrZero(r) == IF IsNull(r) \/ r = Some(0) THEN 0 ELSE Get(r)

\* if (!responses || responses.length === 0) return 0;
\* Math.round((totalScore / responses.length) * 100) / 100   (in 1/100)
CalculateOverallScore(responses) ==
  IF Len(responses) = 0 THEN 0
  ELSE MathRound(100 * SumSeq([i \in 1..Len(responses) |->
                                 ResponseOrZero(responses[i])]),
                 Len(responses))

----------------------------------------------------------------------------
(* OMRProcessor.calculateFillPercentage and OMRProcessor.detectMarks
   (client).  A fill percentage and a mark's confidence are fractions: the
   record [num, den] in lowest terms. *)

\* Size of the ImageData the client works on, in pixels.
ImgWidth == 5
ImgHeight == 2

\* Pixels as RGBA: one whose mean of R, G, B is 127.67 (below 128) and one whose
\* mean is exactly 128.
DarkPixel == <<0, 128, 255, 255>>
LightPixel == <<128, 128, 128, 255>>

\* The ImageData whose pixels numbered (row by row, from 0) in `dark` are dark.
ImageOf(dark) ==
  [ width |-> ImgWidth,
    height |-> ImgHeight,
    data |-> [i \in 1..(4 * ImgWidth * ImgHeight) |->
                IF (i - 1) \div 4 \in dark
                THEN DarkPixel[((i - 1) % 4) + 1]
                ELSE LightPixel[((i - 1) % 4) + 1]] ]

\* The images: the first k pixels dark and the rest light, or the reverse.
Images ==
  LET last == ImgWidth * ImgHeight - 1
  IN { ImageOf(0..(k - 1)) : k \in 0..(last + 1) }
       \cup { ImageOf(k..last) : k \in 0..(last + 1) }

\* A fraction in lowest terms.
Fraction(num, den) ==
  LET g == Gcd(num, den) IN [ num |-> num \div g, den |-> den \div g ]

\* if (brightness < 128)
DarkBelow == 128

\* The body of the two loops for the pixel (px, py): <<totalPixels, darkPixels>>
\* it adds.  data[idx] is the 0-based element idx, here data[idx + 1].
PixelCounts(image, px, py) ==
  IF px >= 0 /\ px < image.width /\ py >= 0 /\ py < image.height
  THEN LET idx == (py * image.width + px) * 4
           brightnessTimes3 ==
             image.data[idx + 1] + image.data[idx + 2] + image.data[idx + 3]
       IN <<1, IF brightnessTimes3 < 3 * DarkBelow THEN 1 ELSE 0>>
  ELSE <<0, 0>>

\* totalPixels++ and darkPixels++ of one pixel added to the counts so far.
AddCounts(a, b) == <<a[1] + b[1], a[2] + b[2]>>

\* A fill percentage taken over the whole rectangle, the pixels of it that lie
\* outside the image included in the denominator.
CalculateFillOfRectangle(image, x, y, width, height) ==
  LET inside == { pp \in (x..(x + width - 1)) \X (y..(y + height - 1)) :
                    PixelCounts(image, pp[1], pp[2])[1] = 1 }
      dark == { pp \in inside : PixelCounts(image, pp[1], pp[2])[2] = 1 }
  IN IF width * height > 0 THEN Fraction(Cardinality(dark), width * height)
     ELSE Fraction(0, 1)

\* calculateFillPercentage(imageData, x, y, width, height): the loops over
\* py in y..y+height-1 and px in x..x+width-1, then
\* totalPixels > 0 ? darkPixels / totalPixels : 0.
CalculateFillPercentage(image, x, y, width, height) ==
  LET Scan[py \in y..(y + height), px \in x..(x + width)] ==
        IF py = y + height THEN <<0, 0>>
        ELSE IF px = x + width THEN Scan[py + 1, x]
        ELSE AddCounts(PixelCounts(image, px, py), Scan[py, px + 1])
      counts == IF width <= 0 \/ height <= 0 THEN <<0, 0>> ELSE Scan[y, x]
  IN IF counts[1] > 0 THEN Fraction(counts[2], counts[1]) ELSE Fraction(0, 1)

\* A filled flag that is also set at a fill percentage of exactly 0.3.
IsFilledFrom(fillPercentage) == 10 * fillPercentage.num >= 3 * fillPercentage.den

\* filled: fillPercentage > 0.3
IsFilled(fillPercentage) == 10 * fillPercentage.num > 3 * fillPercentage.den

\* confidence: Math.min(1, fillPercentage * 2)
MarkConfidence(fillPercentage) ==
  IF 2 * fillPercentage.num < fillPercentage.den
  THEN Fraction(2 * fillPercentage.num, fillPercentage.den)
  ELSE Fraction(1, 1)

\* The OMRMark pushed for one mark of the template.
DetectMark(image, mark) ==
  LET fillPercentage ==
        CalculateFillPercentage(image, mark.x, mark.y, mark.width, mark.height)
  IN [ mark EXCEPT !.filled = IsFilled(fillPercentage),
                   !.confidence = MarkConfidence(fillPercentage) ]

\* detectMarks(imageData, template): the marks of all questions, in order of
\* question and mark, in one flat array.
RECURSIVE DetectQuestions(_, _)
DetectQuestions(image, questions) ==
  IF questions = <<>> THEN <<>>
  ELSE [m \in 1..Len(Head(questions).marks) |->
          DetectMark(image, Head(questions).marks[m])]
         \o DetectQuestions(image, Tail(questions))

DetectMarks(image, template) == DetectQuestions(image, template.questions)

\* The regions calculateFillPercentage is called with: rectangles that lie in
\* the image, stick out of it on any side, or miss it, some of them empty.
Regions ==
  [ x : -1..ImgWidth, y : -1..ImgHeight,
    width : 0..(ImgWidth + 1), height : 0..(ImgHeight + 1) ]

\* A mark of a template before detection.
TemplateMark(x, y, width, height) ==
  [ x |-> x, y |-> y, width |-> width, height |-> height,
    filled |-> FALSE, confidence |-> Fraction(0, 1) ]

TemplateQuestion(id, marks) ==
  [ id |-> id, type |-> "rating", options |-> Len(marks), marks |-> marks ]

\* The templates detectMarks is called with, for an image split at column c:
\*   one question whose two marks are the image's left and right part;
\*   one question per pixel row, with the row's left and right part as marks;
\*   one question with a mark that sticks out of the image and one beside it;
\* and the template whose only mark is the whole image.
Templates ==
  LET split(c) ==
        <<TemplateQuestion(1, <<TemplateMark(0, 0, c, ImgHeight),
                                TemplateMark(c, 0, ImgWidth - c, ImgHeight)>>)>>
      rows(c) ==
        [q \in 1..ImgHeight |->
           TemplateQuestion(q, <<TemplateMark(0, q - 1, c, 1),
                                 TemplateMark(c, q - 1, ImgWidth - c, 1)>>)]
      edge(c) ==
        <<TemplateQuestion(1, <<TemplateMark(-1, -1, c + 1, ImgHeight + 1),
                                TemplateMark(ImgWidth, 0, c, ImgHeight)>>)>>
      whole ==
        <<TemplateQuestion(1, <<TemplateMark(0, 0, ImgWidth, ImgHeight)>>)>>
  IN { [ id |-> "feedback-v1", questions |-> qs ] :
         qs \in { split(c) : c \in 1..(ImgWidth - 1) }
                  \cup { rows(c) : c \in 1..(ImgWidth - 1) }
                  \cup { edge(c) : c \in 1..(ImgWidth - 1) }
                  \cup { whole } }

----------------------------------------------------------------------------
(* OMRProcessor.preprocessImage and its steps (client).  The data of an
   ImageData is a Uint8ClampedArray of RGBA bytes, changed in place. *)

\* The colours of the source images, as RGBA.
Palette ==
  <<<<255, 0, 0, 255>>, <<0, 255, 0, 128>>, <<10, 20, 250, 0>>, <<200, 100, 50, 77>>,
    <<129, 131, 134, 255>>>>

\* The source images: every size up to SourceWidth x SourceHeight, a zero
\* width or height included; pixel k (row by row, from 0) has the colour
\* number offset + k * stride of the palette, cyclically.
SourceImage(width, height, offset, stride) ==
  [ width |-> width,
    height |-> height,
    data |-> [i \in 1..(4 * width * height) |->
                Palette[((offset + ((i - 1) \div 4) * stride) % Len(Palette)) + 1]
                       [((i - 1) % 4) + 1]] ]

SourceImages ==
  { SourceImage(w, h, offset, stride) :
      w \in 0..SourceWidth, h \in 0..SourceHeight,
      offset \in 0..(Len(Palette) - 1), stride \in {1, 2} }

\* A number n / 2 stored into a Uint8ClampedArray: clamped to 0..255 and
\* rounded to the nearest integer, a half to the even one.
ToUint8Clamped(twice) ==
  LET clamped == Max(0, Min(510, twice))
      floor == clamped \div 2
  IN IF clamped % 2 = 0 THEN floor
     ELSE IF floor % 2 = 0 THEN floor ELSE floor + 1

\* convertToGrayscale: for (i = 0; i < data.length; i += 4)
\*   gray = Math.round(0.299 * data[i] + 0.587 * data[i+1] + 0.114 * data[i+2])
\* written to data[i], data[i+1], data[i+2]  (0-based i is i + 1 here).
RECURSIVE GrayscaleFrom(_, _)
GrayscaleFrom(data, i) ==
  IF i >= Len(data) THEN data
  ELSE LET gray == MathRound(299 * data[i + 1] + 587 * data[i + 2]
                               + 114 * data[i + 3], 1000)
       IN GrayscaleFrom([data EXCEPT ![i + 1] = gray, ![i + 2] = gray,
                                     ![i + 3] = gray], i + 4)

\* A grayscale conversion by the plain mean of R, G and B.
ConvertToGrayscaleByMean(image) ==
  [ image EXCEPT !.data =
      [i \in 1..Len(@) |->
         LET first == 4 * ((i - 1) \div 4)
         IN IF i % 4 = 0 THEN @[i]
            ELSE MathRound(@[first + 1] + @[first + 2] + @[first + 3], 3)] ]

ConvertToGrayscale(image) == [ image EXCEPT !.data = GrayscaleFrom(@, 0) ]

\* enhanceContrast with factor 1.5: each of R, G, B becomes
\* Math.min(255, Math.max(0, (v - 128) * 1.5 + 128)), stored into the array.
ContrastOf(v) == ToUint8Clamped(3 * (v - 128) + 256)

RECURSIVE ContrastFrom(_, _)
ContrastFrom(data, i) ==
  IF i >= Len(data) THEN data
  ELSE ContrastFrom([data EXCEPT ![i + 1] = ContrastOf(@), ![i + 2] = ContrastOf(@),
                                 ![i + 3] = ContrastOf(@)], i + 4)

EnhanceContrast(image) == [ image EXCEPT !.data = ContrastFrom(@, 0) ]

\* The sum of channel c (0, 1, 2) over the 3x3 neighbourhood of (x, y), read
\* from the array as it is now.
NeighbourhoodSum(data, width, x, y, c) ==
  SumSeq([n \in 1..9 |->
            LET dy == ((n - 1) \div 3) - 1
                dx == ((n - 1) % 3) - 1
                nIdx == ((y + dy) * width + (x + dx)) * 4
            IN data[nIdx + c + 1]])

\* reduceNoise: for y in 1..height-2, for x in 1..width-2, the three colour
\* channels of (x, y) are set to r / 9, g / 9, b / 9 in the same array the
\* sums are read from.
RECURSIVE ReduceNoiseFrom(_, _, _, _, _)
ReduceNoiseFrom(data, width, height, y, x) ==
  IF y >= height - 1 THEN data
  ELSE IF x >= width - 1 THEN ReduceNoiseFrom(data, width, height, y + 1, 1)
  ELSE LET idx == (y * width + x) * 4
           blurred == [data EXCEPT
             ![idx + 1] = MathRound(NeighbourhoodSum(data, width, x, y, 0), 9),
             ![idx + 2] = MathRound(NeighbourhoodSum(data, width, x, y, 1), 9),
             ![idx + 3] = MathRound(NeighbourhoodSum(data, width, x, y, 2), 9)]
       IN ReduceNoiseFrom(blurred, width, height, y, x + 1)

ReduceNoise(image) ==
  [ image EXCEPT !.data = ReduceNoiseFrom(@, image.width, image.height, 1, 1) ]

----------------------------------------------------------------------------
(* The state. *)

VARIABLES
  batches,      \* table batches: a sequence of rows, a row's id is its index
  omrSheets,    \* table omr_sheets: a sequence of rows, a row's id is its index
  uploads,      \* the POST /api/upload/:batchCode requests and where each stands
  procs,        \* the processOMRImage invocations and where each stands
  now,          \* the clock (Date.now(), new Date()), in timer periods
  files,        \* the paths that exist under uploads/
  patches,      \* PATCH requests handled so far
  response,     \* the last response of a summary endpoint
  utilInput,    \* the argument of OMRUtils.calculateOverallScore
  utilOutput,   \* its return value
  imageData,    \* the ImageData the client's OMRProcessor works on
  call,         \* the method of OMRProcessor called on it, with its arguments
  returned,     \* what the call returned
  page          \* the state of the client's UploadPage component

vars == <<batches, omrSheets, uploads, procs, now, files, patches, response,
          utilInput, utilOutput, imageData, call, returned, page>>

serverVars == <<batches, omrSheets, uploads, procs, now, files, patches>>
utilVars == <<utilInput, utilOutput>>
detectVars == <<imageData, call, returned>>

SheetStatuses == {"pending", "processing", "processed", "review_needed", "failed"}
TerminalStatuses == {"processed", "review_needed", "failed"}

----------------------------------------------------------------------------
(* shared/schema.ts and storage.ts: columns and the storage operations. *)

\* A numeric(precision, scale) column: the value rounded to the column's scale.
\* step is one unit of the scale in the model's unit of the value.
NumericColumn(v, step) == step * MathRound(v, step)

\* omr_sheets.overall_score numeric(3, 2): scores are already in 1/100.
OverallScoreColumn(v) == NumericColumn(v, 1)
\* omr_sheets.confidence numeric(5, 4): confidences are in 1/10^5.
ConfidenceColumn(v) == NumericColumn(v, 10)

\* createOmrSheet: the inserted row, with the columns' defaults.
NewOmrSheet(id, batchId, file) ==
  [ id |-> id,
    batchId |-> batchId,
    studentId |-> file,
    fileName |-> file,
    filePath |-> file,
    status |-> "pending",
    overallScore |-> Null,
    confidence |-> Null,
    processingTime |-> Null,
    responses |-> Null,
    metadata |-> Null,
    processedAt |-> Null ]

\* createBatch: the inserted row, with the columns' defaults.
NewBatch(batchCode, totalSheets) ==
  [ batchCode |-> batchCode,
    status |-> "processing",
    totalSheets |-> totalSheets,
    processedSheets |-> 0,
    averageScore |-> Null,
    completedAt |-> Null ]

\* A Partial<OmrSheet>: each key either missing (Null) or given ({value}).
NoUpdates ==
  [ status |-> Null, overallScore |-> Null, confidence |-> Null,
    processingTime |-> Null, responses |-> Null, metadata |-> Null,
    processedAt |-> Null ]

\* The value a column takes under .set({...}): a key that is missing or
\* undefined keeps the stored value.
SetColumn(stored, given) == IF IsNull(given) THEN stored ELSE given

\* A .set({ ...updates }) that stamps a 'processed' update and otherwise
\* passes the caller's processedAt on to the row.
ProcessedAtFromCaller(updates, time) ==
  IF updates.status = Some("processed") THEN Some(time) ELSE updates.processedAt

\* .set({ ...updates, processedAt: updates.status === 'processed'
\*                                   ? new Date() : undefined })
ProcessedAtOnUpdate(updates, time) ==
  IF updates.status = Some("processed") THEN Some(time) ELSE Null

\* updateOmrSheet(id, updates): the row after the UPDATE.
UpdatedOmrSheet(row, updates, time) ==
  [ row EXCEPT
      !.status = IF IsNull(updates.status) THEN @ ELSE Get(updates.status),
      !.overallScore = IF IsNull(updates.overallScore) THEN @
                       ELSE Some(OverallScoreColumn(Get(updates.overallScore))),
      !.confidence = IF IsNull(updates.confidence) THEN @
                     ELSE Some(ConfidenceColumn(Get(updates.confidence))),
      !.processingTime = SetColumn(@, updates.processingTime),
      !.responses = SetColumn(@, updates.responses),
      !.metadata = SetColumn(@, updates.metadata),
      !.processedAt = SetColumn(@, ProcessedAtOnUpdate(updates, time)) ]

\* An update without its where clause: every row of the table is set.
UpdateEveryOmrSheet(table, id, updates, time) ==
  [ i \in 1..Len(table) |-> UpdatedOmrSheet(table[i], updates, time) ]

\* The table after updateOmrSheet(id, updates); no row has the id: unchanged.
UpdateOmrSheet(table, id, updates, time) ==
  [ i \in 1..Len(table) |->
      IF i = id THEN UpdatedOmrSheet(table[i], updates, time) ELSE table[i] ]

\* getBatchByCode: the ids of the rows with the code (at most one is returned).
BatchIdsByCode(code) == { b \in 1..Len(batches) : batches[b].batchCode = code }

\* getOmrSheetsByBatch
OmrSheetsByBatch(batchId) ==
  SelectSeq(omrSheets, LAMBDA row : row.batchId = batchId)

----------------------------------------------------------------------------
(* lib/omr-processor.ts: processOMRImage, one invocation per element of     *)
(* procs.  pc is the await the invocation stands at:                        *)
(*   "start"    the update to 'processing' is in flight          (line 36)  *)
(*   "delay"    the timer is running                             (line 39)  *)
(*   "check"    about to test the source file                    (line 42)  *)
(*   "detect"   simulateOMRDetection is in flight                (line 47)  *)
(*   "write"    the update with the results is in flight         (line 54)  *)
(*   "catch"    the update to 'failed' is in flight              (line 72)  *)
(*   "resolved" the returned promise is resolved                            *)
(*   "rejected" the returned promise is rejected                            *)

\* The confidence below which a sheet needs review (0.8).
ConfidenceThreshold == 80000

\* A decision that sends a confidence of exactly 0.8 to review.
StatusForAboveOnly(confidence) ==
  IF confidence <= ConfidenceThreshold THEN "review_needed" ELSE "processed"

\* const status = result.confidence < 0.8 ? 'review_needed' : 'processed';
StatusFor(confidence) ==
  IF confidence < ConfidenceThreshold THEN "review_needed" ELSE "processed"

\* The call processOMRImage(sheetId, filePath), up to its first await.
NewInvocation(sheetId, filePath) ==
  [ sheetId |-> sheetId,
    filePath |-> filePath,
    pc |-> "start",
    startTime |-> now,
    result |-> Null,
    processingTime |-> Null,
    error |-> Null,
    elapsed |-> Null ]

\* { status: 'processing' }
ProcessingUpdates == [ NoUpdates EXCEPT !.status = Some("processing") ]

\* The updates of the results (lines 54-64).
ResultUpdates(result, processingTime) ==
  [ NoUpdates EXCEPT
      !.status = Some(StatusFor(result.confidence)),
      !.overallScore = Some(result.overallScore),
      !.confidence = Some(result.confidence),
      !.processingTime = Some(processingTime),
      !.responses = Some(result.responses),
      !.metadata = Some([ imageQuality |-> Some(result.metadata.imageQuality),
                          detectedMarks |-> Some(result.metadata.detectedMarks),
                          skewAngle |-> Some(result.metadata.skewAngle),
                          processingTime |-> Some(processingTime),
                          error |-> Null ]) ]

\* A failure update that loses the cause: it records 'Unknown error' whatever
\* was thrown.
FailedUpdatesUnknownError(message, elapsed) ==
  [ NoUpdates EXCEPT
      !.status = Some("failed"),
      !.metadata = Some([ imageQuality |-> Null,
                          detectedMarks |-> Null,
                          skewAngle |-> Null,
                          processingTime |-> Some(elapsed),
                          error |-> Some("Unknown error") ]) ]

\* The updates of a failure (lines 72-78).
FailedUpdates(message, elapsed) ==
  [ NoUpdates EXCEPT
      !.status = Some("failed"),
      !.metadata = Some([ imageQuality |-> Null,
                          detectedMarks |-> Null,
                          skewAngle |-> Null,
                          processingTime |-> Some(elapsed),
                          error |-> Some(message) ]) ]

\* An error thrown inside the try block: control enters the catch block, which
\* reads the clock and issues the update to 'failed'.
Caught(proc, message) ==
  [ proc EXCEPT !.pc = "catch",
                !.error = Some(message),
                !.elapsed = Some(now - proc.startTime) ]

\* The message of an error the storage layer throws (the driver's).
StorageError == "storage error"

\* await storage.updateOmrSheet(sheetId, { status: 'processing' })
SetProcessing(p) ==
  /\ procs[p].pc = "start"
  /\ omrSheets' = UpdateOmrSheet(omrSheets, procs[p].sheetId, ProcessingUpdates, now)
  /\ procs' = [procs EXCEPT ![p].pc = "delay"]
  /\ UNCHANGED <<batches, uploads, now, patches, response, files, utilVars, detectVars, page>>

\* ... and the same await when the storage layer throws.
SetProcessingThrows(p) ==
  /\ procs[p].pc = "start"
  /\ procs' = [procs EXCEPT ![p] = Caught(@, StorageError)]
  /\ UNCHANGED <<batches, omrSheets, uploads, now, patches, response, files, utilVars, detectVars, page>>

\* await new Promise(resolve => setTimeout(resolve, 2000 + ...)): the timer
\* fires, one timer period later at the earliest.
TimerFires(p) ==
  /\ procs[p].pc = "delay"
  /\ now' = now + 1
  /\ procs' = [procs EXCEPT ![p].pc = "check"]
  /\ UNCHANGED <<batches, omrSheets, uploads, patches, response, files, utilVars, detectVars, page>>

\* if (!fs.existsSync(filePath)) throw new Error('File not found');
\* then the call of simulateOMRDetection.
CheckFile(p) ==
  /\ procs[p].pc = "check"
  /\ procs' = [procs EXCEPT ![p] =
                 IF procs[p].filePath \in files THEN [@ EXCEPT !.pc = "detect"]
                 ELSE Caught(@, "File not found")]
  /\ UNCHANGED <<batches, omrSheets, uploads, now, patches, response, files, utilVars, detectVars, page>>

\* The environment removes a stored file (a cleanup of uploads/, a lost disk).
\* Only a removal that an invocation can still observe is modelled: one that
\* comes before the invocation's test of the file.
RemoveFile(f) ==
  /\ f \in files
  /\ \E p \in 1..Len(procs) : /\ procs[p].filePath = f
                               /\ procs[p].pc \in {"start", "delay", "check"}
  /\ files' = files \ {f}
  /\ UNCHANGED <<batches, omrSheets, uploads, procs, now, patches, response, utilVars, detectVars, page>>

\* const result = await simulateOMRDetection(filePath);
\* const processingTime = Date.now() - startTime;
Detect(p) ==
  /\ procs[p].pc = "detect"
  /\ \E stream \in RandomStreams :
       procs' = [procs EXCEPT ![p].pc = "write",
                              ![p].result = Some(SimulateOMRDetection(stream)),
                              ![p].processingTime = Some(now - procs[p].startTime)]
  /\ UNCHANGED <<batches, omrSheets, uploads, now, patches, response, files, utilVars, detectVars, page>>

\* A pipeline that keeps the batch's counter: it writes the results and adds
\* one to processedSheets of the sheet's batch.
WriteResultCountsBatch(p) ==
  /\ procs[p].pc = "write"
  /\ omrSheets' = UpdateOmrSheet(omrSheets, procs[p].sheetId,
                                 ResultUpdates(Get(procs[p].result),
                                               Get(procs[p].processingTime)),
                                 now)
  /\ batches' = [batches EXCEPT
                   ![omrSheets[procs[p].sheetId].batchId].processedSheets = @ + 1]
  /\ procs' = [procs EXCEPT ![p].pc = "resolved"]
  /\ UNCHANGED <<uploads, now, patches, response, files, utilVars, detectVars, page>>

\* await storage.updateOmrSheet(sheetId, { status, overallScore, ... })
WriteResult(p) ==
  /\ procs[p].pc = "write"
  /\ omrSheets' = UpdateOmrSheet(omrSheets, procs[p].sheetId,
                                 ResultUpdates(Get(procs[p].result),
                                               Get(procs[p].processingTime)),
                                 now)
  /\ procs' = [procs EXCEPT ![p].pc = "resolved"]
  /\ UNCHANGED <<batches, uploads, now, patches, response, files, utilVars, detectVars, page>>

WriteResultThrows(p) ==
  /\ procs[p].pc = "write"
  /\ procs' = [procs EXCEPT ![p] = Caught(@, StorageError)]
  /\ UNCHANGED <<batches, omrSheets, uploads, now, patches, response, files, utilVars, detectVars, page>>

\* catch: await storage.updateOmrSheet(sheetId, { status: 'failed', ... })
WriteFailed(p) ==
  /\ procs[p].pc = "catch"
  /\ omrSheets' = UpdateOmrSheet(omrSheets, procs[p].sheetId,
                                 FailedUpdates(Get(procs[p].error),
                                               Get(procs[p].elapsed)),
                                 now)
  /\ procs' = [procs EXCEPT ![p].pc = "resolved"]
  /\ UNCHANGED <<batches, uploads, now, patches, response, files, utilVars, detectVars, page>>

\* ... and when that update throws: nothing catches it inside processOMRImage,
\* the promise is rejected (the route's .catch logs it).
WriteFailedThrows(p) ==
  /\ procs[p].pc = "catch"
  /\ procs' = [procs EXCEPT ![p].pc = "rejected"]
  /\ UNCHANGED <<batches, omrSheets, uploads, now, patches, response, files, utilVars, detectVars, page>>

\* One step of invocation p.
PipelineStep(p) ==
  \/ SetProcessing(p)
  \/ SetProcessingThrows(p)
  \/ TimerFires(p)
  \/ CheckFile(p)
  \/ Detect(p)
  \/ WriteResult(p)
  \/ WriteResultThrows(p)
  \/ WriteFailed(p)
  \/ WriteFailedThrows(p)

\* processOMRImage is exported: a caller asks to process again a sheet that
\* has reached a terminal status.
Reprocess(s) ==
  /\ omrSheets[s].status \in TerminalStatuses
  /\ Len(procs) < Len(omrSheets) + MaxReinvocations
  /\ procs' = Append(procs, NewInvocation(s, omrSheets[s].filePath))
  /\ UNCHANGED <<batches, omrSheets, uploads, now, patches, response, files, utilVars, detectVars, page>>

----------------------------------------------------------------------------
(* routes.ts: POST /api/upload/:batchCode, one request per element of       *)
(* uploads.  pc is the await the handler stands at:                         *)
(*   "getBatch"    storage.getBatchByCode is in flight           (line 86)  *)
(*   "createBatch" storage.createBatch is in flight              (line 90)  *)
(*   "createSheet" storage.createOmrSheet is in flight           (line 104) *)
(*   "done"        the response was sent (res is its status code)           *)

\* The files of request r: multer stores file k of request r under a fresh path
\* of uploads/ before the handler runs.
UploadedFiles(r, n) == [k \in 1..n |-> <<r, k>>]

\* The files of all the requests accepted so far.
FilesAccepted == SumSeq([r \in 1..Len(uploads) |-> Len(uploads[r].files)])

\* The request arrives; with no file it is answered at once (lines 82-84).
\* The model accepts maxUploads requests and maxSheets files in all.
AcceptUpload(code, n, maxUploads, maxSheets) ==
  /\ Len(uploads) < maxUploads
  /\ FilesAccepted + n <= maxSheets
  /\ LET stored == UploadedFiles(Len(uploads) + 1, n)
     IN /\ files' = files \cup { stored[k] : k \in 1..n }
        /\ uploads' = Append(uploads,
             [ batchCode |-> code,
               files |-> stored,
               pc |-> IF n = 0 THEN "done" ELSE "getBatch",
               batch |-> Null,
               uploadedSheets |-> <<>>,
               res |-> IF n = 0 THEN Some(400) ELSE Null ])
  /\ UNCHANGED <<batches, omrSheets, procs, now, patches, response, utilVars, detectVars, page>>

PostUpload(code, n) == AcceptUpload(code, n, MaxUploads, MaxSheets)

\* let batch = await storage.getBatchByCode(batchCode);
GetBatch(r) ==
  /\ uploads[r].pc = "getBatch"
  /\ LET found == BatchIdsByCode(uploads[r].batchCode)
     IN uploads' = [uploads EXCEPT
          ![r].batch = IF found = {} THEN Null
                       ELSE Some(CHOOSE b \in found : \A c \in found : b <= c),
          ![r].pc = IF found = {} THEN "createBatch" ELSE "createSheet"]
  /\ UNCHANGED <<batches, omrSheets, procs, now, patches, response, files, utilVars, detectVars, page>>

\* batch = await storage.createBatch({ batchCode, ..., totalSheets: files.length });
\* batch_code is unique: the insert of a code that is there throws.
CreateBatch(r) ==
  /\ uploads[r].pc = "createBatch"
  /\ IF BatchIdsByCode(uploads[r].batchCode) = {}
     THEN /\ batches' = Append(batches, NewBatch(uploads[r].batchCode,
                                                 Len(uploads[r].files)))
          /\ uploads' = [uploads EXCEPT ![r].batch = Some(Len(batches) + 1),
                                        ![r].pc = "createSheet"]
     ELSE /\ uploads' = [uploads EXCEPT ![r].pc = "done", ![r].res = Some(500)]
          /\ UNCHANGED batches
  /\ UNCHANGED <<omrSheets, procs, now, patches, response, files, utilVars, detectVars, page>>

\* A handler that awaits the pipelines: it inserts the sheets and starts their
\* pipelines as the code does, but answers only when every pipeline has ended,
\* with the rows as they are then.
CreateSheetAwaited(r) ==
  /\ uploads[r].pc = "createSheet"
  /\ LET req == uploads[r]
         k == Len(req.uploadedSheets) + 1
         id == Len(omrSheets) + 1
     IN IF k > Len(req.files)
        THEN /\ \A p \in 1..Len(procs) : procs[p].pc \in {"resolved", "rejected"}
             /\ uploads' = [uploads EXCEPT
                  ![r].uploadedSheets = [i \in 1..Len(@) |-> omrSheets[@[i].id]],
                  ![r].pc = "done",
                  ![r].res = Some(201)]
             /\ UNCHANGED <<omrSheets, procs>>
        ELSE /\ omrSheets' = Append(omrSheets,
                                    NewOmrSheet(id, Get(req.batch), req.files[k]))
             /\ procs' = Append(procs, NewInvocation(id, req.files[k]))
             /\ uploads' = [uploads EXCEPT
                  ![r].uploadedSheets =
                    Append(@, NewOmrSheet(id, Get(req.batch), req.files[k]))]
  /\ UNCHANGED <<batches, now, patches, response, files, utilVars, detectVars, page>>

\* One turn of the loop over the files (lines 101-118): the sheet is inserted,
\* pushed, and its pipeline started without being awaited; after the last file
\* the 201 response follows (lines 120-124).
CreateSheet(r) ==
  /\ uploads[r].pc = "createSheet"
  /\ LET req == uploads[r]
         k == Len(req.uploadedSheets) + 1
         id == Len(omrSheets) + 1
         last == k = Len(req.files)
     IN /\ omrSheets' = Append(omrSheets, NewOmrSheet(id, Get(req.batch), req.files[k]))
        /\ procs' = Append(procs, NewInvocation(id, req.files[k]))
        /\ uploads' = [uploads EXCEPT
             ![r].uploadedSheets =
               Append(@, NewOmrSheet(id, Get(req.batch), req.files[k])),
             ![r].pc = IF last THEN "done" ELSE "createSheet",
             ![r].res = IF last THEN Some(201) ELSE Null]
  /\ UNCHANGED <<batches, now, patches, response, files, utilVars, detectVars, page>>

\* A storage call of the handler throws: the catch answers 500 (lines 125-128).
UploadStorageThrows(r) ==
  /\ uploads[r].pc \in {"getBatch", "createBatch", "createSheet"}
  /\ uploads' = [uploads EXCEPT ![r].pc = "done", ![r].res = Some(500)]
  /\ UNCHANGED <<batches, omrSheets, procs, now, patches, response, files, utilVars, detectVars, page>>

----------------------------------------------------------------------------
(* routes.ts: PATCH /api/sheets/:sheetId (manual review). *)

\* The request bodies the model sends: a status and nothing else.  The route
\* does not validate the body, so a status outside the five is accepted too.
PatchStatuses == {"processed", "failed", "archived"}

\* const updatedSheet = await storage.updateOmrSheet(sheetId, updates);
PatchSheet(s, status) ==
  /\ patches < MaxPatches
  /\ s \in 1..Len(omrSheets)
  /\ patches' = patches + 1
  /\ omrSheets' = UpdateOmrSheet(omrSheets, s,
                                 [NoUpdates EXCEPT !.status = Some(status)], now)
  /\ UNCHANGED <<batches, uploads, procs, now, response, files, utilVars, detectVars, page>>

\* A processedAt a caller puts in a request body (JSON carries it as a string).
SuppliedProcessedAt == "2020-01-01T00:00:00.000Z"

\* Request bodies with a status, a processedAt, or both.
PatchBodies ==
  { [NoUpdates EXCEPT !.status = status, !.processedAt = processedAt] :
      status \in {Null} \cup { Some(st) : st \in PatchStatuses },
      processedAt \in {Null, Some(SuppliedProcessedAt)} } \ {NoUpdates}

\* The same route with the whole of req.body handed to updateOmrSheet.
PatchSheetWith(s, body) ==
  /\ patches < MaxPatches
  /\ s \in 1..Len(omrSheets)
  /\ patches' = patches + 1
  /\ omrSheets' = UpdateOmrSheet(omrSheets, s, body, now)
  /\ UNCHANGED <<batches, uploads, procs, now, response, files, utilVars, detectVars, page>>

----------------------------------------------------------------------------
(* routes.ts and storage.ts: the summary endpoints.  Each reads the sheets  *)
(* in one query and computes its answer from what it read.                  *)

NoResponse == [ kind |-> "none" ]

\* sheets.reduce((acc, sheet) => { acc[sheet.status] = (acc[sheet.status] || 0) + 1 }, {}):
\* an object with one key per status that occurs.
StatusCounts(sheets) ==
  [ st \in { sheets[i].status : i \in 1..Len(sheets) } |->
      Cardinality({ i \in 1..Len(sheets) : sheets[i].status = st }) ]

\* statusCounts.pending: the count, or undefined when the key is missing.
Property(object, key) ==
  IF key \in DOMAIN object THEN Some(object[key]) ELSE Null

\* value === 0
StrictlyEqualsZero(value) == value = Some(0)

\* isComplete: statusCounts.pending === 0
IsComplete(statusCounts) == StrictlyEqualsZero(Property(statusCounts, "pending"))

\* res.json({ batchCode, totalSheets, statusCounts, isComplete })
ProcessingStatus(code, sheets) ==
  [ kind |-> "processing-status",
    batchCode |-> code,
    totalSheets |-> Len(sheets),
    statusCounts |-> StatusCounts(sheets),
    isComplete |-> IsComplete(StatusCounts(sheets)) ]

\* GET /api/processing-status/:batchCode
GetProcessingStatus(code) ==
  /\ BatchIdsByCode(code) # {}
  /\ LET batch == CHOOSE b \in BatchIdsByCode(code) : TRUE
     IN response' = ProcessingStatus(code, OmrSheetsByBatch(batch))
  /\ UNCHANGED <<serverVars, utilVars, detectVars, page>>

\* Number(sheet.overallScore) || 0
NumberOrZero(column) == IF IsNull(column) THEN 0 ELSE Get(column)

\* sheets.filter(sheet => sheet.status === 'processed')
ProcessedSheets(sheets) == SelectSeq(sheets, LAMBDA row : row.status = "processed")

\* The mean of the scores of the given sheets, 0 when there is none, as
\* Math.round(averageScore * 100) / 100 (in 1/100).
RoundedMeanScore(sheets) ==
  IF Len(sheets) > 0
  THEN MathRound(SumSeq([i \in 1..Len(sheets) |-> NumberOrZero(sheets[i].overallScore)]),
                 Len(sheets))
  ELSE 0

\* res.json({ batchCode, totalSheets, processedSheets, needsReview, averageScore, sheets })
BatchResults(code, sheets) ==
  [ kind |-> "results",
    batchCode |-> code,
    totalSheets |-> Len(sheets),
    processedSheets |-> Len(ProcessedSheets(sheets)),
    needsReview |-> Len(SelectSeq(sheets, LAMBDA row : row.status = "review_needed")),
    averageScore |-> RoundedMeanScore(ProcessedSheets(sheets)),
    sheets |-> [ i \in 1..Len(sheets) |->
                   [ id |-> sheets[i].id,
                     studentId |-> sheets[i].studentId,
                     fileName |-> sheets[i].fileName,
                     status |-> sheets[i].status,
                     overallScore |-> sheets[i].overallScore,
                     confidence |-> sheets[i].confidence,
                     responses |-> sheets[i].responses,
                     processedAt |-> sheets[i].processedAt ] ] ]

\* GET /api/results/:batchCode
GetResults(code) ==
  /\ BatchIdsByCode(code) # {}
  /\ LET batch == CHOOSE b \in BatchIdsByCode(code) : TRUE
     IN response' = BatchResults(code, OmrSheetsByBatch(batch))
  /\ UNCHANGED <<serverVars, utilVars, detectVars, page>>

\* A rational number num / den in lowest terms (den > 0).
Ratio(num, den) ==
  LET g == Gcd(num, den) IN [ num |-> num \div g, den |-> den \div g ]

\* avg(overall_score) over the given rows: SQL's avg skips NULLs and is NULL
\* over no value; Number(NULL) || 0 is 0.  In 1/100, exact.
AverageOfScores(rows) ==
  LET scored == SelectSeq(rows, LAMBDA row : ~IsNull(row.overallScore))
  IN IF Len(scored) = 0 THEN Ratio(0, 1)
     ELSE Ratio(SumSeq([i \in 1..Len(scored) |-> Get(scored[i].overallScore)]),
                Len(scored))

\* getSystemStats: one SELECT over all of omr_sheets.
SystemStats(rows) ==
  LET total == Len(rows)
      processed == Len(SelectSeq(rows, LAMBDA row : row.status = "processed"))
  IN [ kind |-> "stats",
       totalSheets |-> total,
       processedSheets |-> processed,
       averageScore |-> AverageOfScores(rows),
       \* Math.round(processingRate * 100) / 100, in 1/100 of a percent
       processingRate |-> IF total > 0 THEN MathRound(processed * 10000, total)
                          ELSE 0 ]

\* GET /api/dashboard/stats
GetSystemStats ==
  /\ response' = SystemStats(omrSheets)
  /\ UNCHANGED <<serverVars, utilVars, detectVars, page>>

----------------------------------------------------------------------------
(* The client's call of OMRUtils.calculateOverallScore. *)

RECURSIVE SeqsUpTo(_, _)
SeqsUpTo(S, n) ==
  IF n = 0 THEN { <<>> }
  ELSE SeqsUpTo(S, n - 1)
         \cup { Append(sq, x) : sq \in { t \in SeqsUpTo(S, n - 1) : Len(t) = n - 1 },
                                x \in S }

ApplyCalculateOverallScore ==
  /\ IsNull(utilOutput)
  /\ utilOutput' = Some(CalculateOverallScore(utilInput))
  /\ UNCHANGED <<serverVars, response, utilInput, detectVars, page>>

----------------------------------------------------------------------------
(* The client's calls of OMRProcessor.calculateFillPercentage and
   OMRProcessor.detectMarks. *)

\* No image loaded, no call made.
NoImage == [ width |-> 0, height |-> 0, data |-> <<>> ]
DetectIdle ==
  /\ imageData = NoImage
  /\ call = Null
  /\ returned = Null

\* this.calculateFillPercentage(imageData, x, y, width, height)
CallCalculateFillPercentage(region) ==
  /\ call = Null
  /\ call' = Some([ method |-> "calculateFillPercentage", region |-> region ])
  /\ returned' = Some(CalculateFillPercentage(imageData, region.x, region.y,
                                               region.width, region.height))
  /\ UNCHANGED <<serverVars, response, utilVars, imageData, page>>

\* processor.detectMarks(imageData, template)
CallDetectMarks(template) ==
  /\ call = Null
  /\ call' = Some([ method |-> "detectMarks", template |-> template ])
  /\ returned' = Some(DetectMarks(imageData, template))
  /\ UNCHANGED <<serverVars, response, utilVars, imageData, page>>

\* processor.preprocessImage(image), up to getImageData: the canvas takes the
\* image's size, the image is drawn, and ctx.getImageData(0, 0, width, height)
\* throws the DOMException IndexSizeError when the width or the height is 0.
CallPreprocessImage(image) ==
  /\ call = Null
  /\ imageData = NoImage
  /\ IF image.width = 0 \/ image.height = 0
     THEN /\ call' = Some([ method |-> "preprocessImage", image |-> image,
                            pc |-> "thrown" ])
          /\ returned' = Some([ error |-> "IndexSizeError" ])
          /\ UNCHANGED imageData
     ELSE /\ call' = Some([ method |-> "preprocessImage", image |-> image,
                            pc |-> "grayscale" ])
          /\ imageData' = image
          /\ UNCHANGED returned
  /\ UNCHANGED <<serverVars, response, utilVars, page>>

\* The call of preprocessImage stands at the given step.
PreprocessAt(pc) ==
  /\ call # Null
  /\ Get(call).method = "preprocessImage"
  /\ Get(call).pc = pc

\* this.convertToGrayscale(imageData);
GrayscaleStep ==
  /\ PreprocessAt("grayscale")
  /\ imageData' = ConvertToGrayscale(imageData)
  /\ call' = Some([ Get(call) EXCEPT !.pc = "contrast" ])
  /\ UNCHANGED <<serverVars, response, utilVars, returned, page>>

\* this.enhanceContrast(imageData);
ContrastStep ==
  /\ PreprocessAt("contrast")
  /\ imageData' = EnhanceContrast(imageData)
  /\ call' = Some([ Get(call) EXCEPT !.pc = "noise" ])
  /\ UNCHANGED <<serverVars, response, utilVars, returned, page>>

\* this.reduceNoise(imageData); return imageData;
NoiseStep ==
  /\ PreprocessAt("noise")
  /\ imageData' = ReduceNoise(imageData)
  /\ call' = Some([ Get(call) EXCEPT !.pc = "returned" ])
  /\ returned' = Some(ReduceNoise(imageData))
  /\ UNCHANGED <<serverVars, response, utilVars, page>>

----------------------------------------------------------------------------
(* The client's UploadPage component: what it keeps in useState, the data   *)
(* of its processing-status query and the toasts it has shown.               *)

\* The component as mounted: useState(false), useState(null), no query data.
PageMounted ==
  [ isProcessing |-> FALSE,
    processingBatch |-> Null,
    processingStatus |-> Null,
    handled |-> {},
    toasts |-> {} ]

\* uploadMutation.onSuccess(data) for the 201 response of request r:
\* setIsProcessing(true); setProcessingBatch(data.batch.batchCode).
UploadSucceeded(r) ==
  /\ r \notin page.handled
  /\ uploads[r].res = Some(201)
  /\ page' = [page EXCEPT !.isProcessing = TRUE,
                          !.processingBatch = Some(uploads[r].batchCode),
                          !.handled = @ \cup {r},
                          !.toasts = @ \cup {"Upload Successful"}]
  /\ UNCHANGED <<serverVars, response, utilVars, detectVars>>

\* The query is enabled while processingBatch is set and isProcessing is true.
PollingEnabled == page.processingBatch # Null /\ page.isProcessing

\* if (processingStatus?.isComplete && isProcessing) { setIsProcessing(false);
\* toast({ title: "Processing Complete", ... }) }
Rendered(state) ==
  IF state.processingStatus # Null /\ Get(state.processingStatus).isComplete
       /\ state.isProcessing
  THEN [state EXCEPT !.isProcessing = FALSE,
                     !.toasts = @ \cup {"Processing Complete"}]
  ELSE state

\* One refetch of the query (every 2000 ms while it is enabled): the endpoint
\* answers, the data is stored and the component renders again.
PollProcessingStatus ==
  /\ PollingEnabled
  /\ BatchIdsByCode(Get(page.processingBatch)) # {}
  /\ LET code == Get(page.processingBatch)
         batch == CHOOSE b \in BatchIdsByCode(code) : TRUE
         status == ProcessingStatus(code, OmrSheetsByBatch(batch))
     IN /\ response' = status
        /\ page' = Rendered([page EXCEPT !.processingStatus = Some(status)])
  /\ UNCHANGED <<serverVars, utilVars, detectVars>>

----------------------------------------------------------------------------
(* Specifications. *)

ServerInit ==
  /\ batches = <<>>
  /\ omrSheets = <<>>
  /\ uploads = <<>>
  /\ procs = <<>>
  /\ now = 0
  /\ files = {}
  /\ patches = 0
  /\ response = NoResponse

\* The server after start-up: empty tables, no request.
Init ==
  /\ ServerInit
  /\ utilInput = <<>>
  /\ utilOutput = Null
  /\ DetectIdle
  /\ page = PageMounted

Procs == 1..Len(procs)
Uploads == 1..Len(uploads)
Sheets == 1..Len(omrSheets)

\* The server as wired: uploads, the pipelines they start, and PATCH.
Next ==
  \/ \E code \in BatchCodes, n \in 0..MaxFiles : PostUpload(code, n)
  \/ \E r \in Uploads : GetBatch(r)
  \/ \E r \in Uploads : CreateBatch(r)
  \/ \E r \in Uploads : CreateSheet(r)
  \/ \E r \in Uploads : UploadStorageThrows(r)
  \/ \E p \in Procs : SetProcessing(p)
  \/ \E p \in Procs : SetProcessingThrows(p)
  \/ \E p \in Procs : TimerFires(p)
  \/ \E p \in Procs : CheckFile(p)
  \/ \E p \in Procs : Detect(p)
  \/ \E p \in Procs : WriteResult(p)
  \/ \E p \in Procs : WriteResultThrows(p)
  \/ \E p \in Procs : WriteFailed(p)
  \/ \E p \in Procs : WriteFailedThrows(p)
  \/ \E f \in files : RemoveFile(f)
  \/ \E s \in Sheets, status \in PatchStatuses : PatchSheet(s, status)

Spec == Init /\ [][Next]_vars

\* The event loop runs every continuation that is ready: a timer that was set
\* fires and a storage call that was issued returns or throws.
Fairness == \A p \in 1..MaxSheets : WF_vars(p \in Procs /\ PipelineStep(p))

FairSpec == Spec /\ Fairness

\* The pipelines with callers that ask to process terminal sheets again;
\* no PATCH.
NextInvoke ==
  \/ \E code \in BatchCodes, n \in 0..MaxFiles : PostUpload(code, n)
  \/ \E r \in Uploads : GetBatch(r)
  \/ \E r \in Uploads : CreateBatch(r)
  \/ \E r \in Uploads : CreateSheet(r)
  \/ \E r \in Uploads : UploadStorageThrows(r)
  \/ \E p \in Procs : SetProcessing(p)
  \/ \E p \in Procs : SetProcessingThrows(p)
  \/ \E p \in Procs : TimerFires(p)
  \/ \E p \in Procs : CheckFile(p)
  \/ \E p \in Procs : Detect(p)
  \/ \E p \in Procs : WriteResult(p)
  \/ \E p \in Procs : WriteResultThrows(p)
  \/ \E p \in Procs : WriteFailed(p)
  \/ \E p \in Procs : WriteFailedThrows(p)
  \/ \E f \in files : RemoveFile(f)
  \/ \E s \in Sheets : Reprocess(s)

SpecInvoke == Init /\ [][NextInvoke]_vars

\* The server with clients that poll the summary endpoints of one upload's
\* batch, while the storage layer answers every call.
NextSummary ==
  \/ \E code \in BatchCodes, n \in 1..PolledSheets :
       AcceptUpload(code, n, 1, PolledSheets)
  \/ \E r \in Uploads : GetBatch(r)
  \/ \E r \in Uploads : CreateBatch(r)
  \/ \E r \in Uploads : CreateSheet(r)
  \/ \E p \in Procs : SetProcessing(p)
  \/ \E p \in Procs : TimerFires(p)
  \/ \E p \in Procs : CheckFile(p)
  \/ \E p \in Procs : Detect(p)
  \/ \E p \in Procs : WriteResult(p)
  \/ \E p \in Procs : WriteFailed(p)
  \/ \E f \in files : RemoveFile(f)
  \/ \E s \in Sheets, status \in PatchStatuses : PatchSheet(s, status)
  \/ \E code \in BatchCodes : GetProcessingStatus(code)
  \/ \E code \in BatchCodes : GetResults(code)
  \/ GetSystemStats

SpecSummary == Init /\ [][NextSummary]_vars

\* One upload from the upload page, its pipelines, and the page polling the
\* processing status of the batch.
NextPoll ==
  \/ \E code \in BatchCodes, n \in 1..PolledSheets :
       AcceptUpload(code, n, 1, PolledSheets)
  \/ \E r \in Uploads : GetBatch(r)
  \/ \E r \in Uploads : CreateBatch(r)
  \/ \E r \in Uploads : CreateSheet(r)
  \/ \E p \in Procs : SetProcessing(p)
  \/ \E p \in Procs : SetProcessingThrows(p)
  \/ \E p \in Procs : TimerFires(p)
  \/ \E p \in Procs : CheckFile(p)
  \/ \E p \in Procs : Detect(p)
  \/ \E p \in Procs : WriteResult(p)
  \/ \E p \in Procs : WriteResultThrows(p)
  \/ \E p \in Procs : WriteFailed(p)
  \/ \E p \in Procs : WriteFailedThrows(p)
  \/ \E f \in files : RemoveFile(f)
  \/ \E r \in Uploads : UploadSucceeded(r)
  \/ PollProcessingStatus

\* Every pipeline step that can be taken is taken, and the query refetches for
\* as long as it is enabled.
PollFairness ==
  /\ \A p \in 1..PolledSheets : WF_vars(p \in Procs /\ PipelineStep(p))
  /\ WF_vars(\E r \in Uploads : UploadSucceeded(r))
  /\ WF_vars(PollProcessingStatus)

SpecPoll == Init /\ [][NextPoll]_vars /\ PollFairness

\* Uploads, their pipelines and PATCH requests whose bodies may carry a
\* processedAt of the caller's; a storage call of the upload or the first one of
\* a pipeline may fail.
NextPatch ==
  \/ \E code \in BatchCodes, n \in 0..MaxFiles : PostUpload(code, n)
  \/ \E r \in Uploads : GetBatch(r)
  \/ \E r \in Uploads : CreateBatch(r)
  \/ \E r \in Uploads : CreateSheet(r)
  \/ \E r \in Uploads : UploadStorageThrows(r)
  \/ \E p \in Procs : SetProcessing(p)
  \/ \E p \in Procs : SetProcessingThrows(p)
  \/ \E p \in Procs : TimerFires(p)
  \/ \E p \in Procs : CheckFile(p)
  \/ \E p \in Procs : Detect(p)
  \/ \E p \in Procs : WriteResult(p)
  \/ \E p \in Procs : WriteFailed(p)
  \/ \E f \in files : RemoveFile(f)
  \/ \E s \in Sheets, body \in PatchBodies : PatchSheetWith(s, body)

SpecPatch == Init /\ [][NextPatch]_vars

\* One upload of several files: the upload handler and the pipelines it starts,
\* each running to its end next to the others; no PATCH.
NextParallel ==
  \/ \E code \in BatchCodes, n \in 1..ParallelSheets :
       AcceptUpload(code, n, 1, ParallelSheets)
  \/ \E r \in Uploads : GetBatch(r)
  \/ \E r \in Uploads : CreateBatch(r)
  \/ \E r \in Uploads : CreateSheet(r)
  \/ \E r \in Uploads : UploadStorageThrows(r)
  \/ \E p \in Procs : SetProcessing(p)
  \/ \E p \in Procs : SetProcessingThrows(p)
  \/ \E p \in Procs : TimerFires(p)
  \/ \E p \in Procs : CheckFile(p)
  \/ \E p \in Procs : Detect(p)
  \/ \E p \in Procs : WriteResult(p)
  \/ \E p \in Procs : WriteResultThrows(p)
  \/ \E p \in Procs : WriteFailed(p)
  \/ \E p \in Procs : WriteFailedThrows(p)
  \/ \E f \in files : RemoveFile(f)

SpecParallel == Init /\ [][NextParallel]_vars

\* Several uploads for the same batch code, side by side or one after the
\* other, with the pipelines they start; the storage fails only on its unique
\* constraint.
NextBatch ==
  \/ \E code \in BatchCodes, n \in 0..BatchFiles :
       AcceptUpload(code, n, BatchUploads, BatchFiles)
  \/ \E r \in Uploads : GetBatch(r)
  \/ \E r \in Uploads : CreateBatch(r)
  \/ \E r \in Uploads : CreateSheet(r)
  \/ \E p \in Procs : SetProcessing(p)
  \/ \E p \in Procs : TimerFires(p)
  \/ \E p \in Procs : CheckFile(p)
  \/ \E p \in Procs : Detect(p)
  \/ \E p \in Procs : WriteResult(p)
  \/ \E p \in Procs : WriteFailed(p)
  \/ \E f \in files : RemoveFile(f)

SpecBatch == Init /\ [][NextBatch]_vars

\* The score helper applied to every list of at most MaxResponses responses.
InitScore ==
  /\ ServerInit
  /\ utilInput \in SeqsUpTo(UtilResponses, MaxResponses)
  /\ utilOutput = Null
  /\ DetectIdle
  /\ page = PageMounted

NextScore == ApplyCalculateOverallScore

SpecScore == InitScore /\ [][NextScore]_vars

\* The client's OMRProcessor with an image loaded, called once.
InitDetect ==
  /\ ServerInit
  /\ utilInput = <<>>
  /\ utilOutput = Null
  /\ imageData \in Images
  /\ call = Null
  /\ returned = Null
  /\ page = PageMounted

NextDetect ==
  \/ \E region \in Regions : CallCalculateFillPercentage(region)
  \/ \E template \in Templates : CallDetectMarks(template)

SpecDetect == InitDetect /\ [][NextDetect]_vars

\* The client's OMRProcessor preprocessing one image.
NextPreprocess ==
  \/ \E image \in SourceImages : CallPreprocessImage(image)
  \/ GrayscaleStep
  \/ ContrastStep
  \/ NoiseStep

SpecPreprocess == Init /\ [][NextPreprocess]_vars

----------------------------------------------------------------------------
(* The claims. *)

\* The stored row of the sheet invocation p works on, before and after a step.
RowOf(p) == omrSheets[procs[p].sheetId]
RowAfter(p) == omrSheets'[procs[p].sheetId]

\* The step in which the update invocation p has in flight at pc `from` lands
\* and p moves on to `to`.
Lands(p, from, to) == procs[p].pc = from /\ procs'[p].pc = to

\* C1: when detection has completed and the update with the results lands, the
\* status written is 'processed' exactly when the result's confidence is at
\* least 0.8 and 'review_needed' exactly when it is below 0.8 (0.8 itself gives
\* 'processed'), and the confidence stored is the confidence the decision was
\* made on.
C1_StatusFollowsConfidence ==
  [][ \A p \in Procs :
        Lands(p, "write", "resolved") =>
          LET decided == Get(procs[p].result).confidence
          IN /\ RowAfter(p).status = "processed" <=> decided >= 80000
             /\ RowAfter(p).status = "review_needed" <=> decided < 80000
             /\ RowAfter(p).confidence = Some(decided) ]_vars

\* A pipeline has resolved after writing a result of confidence exactly 0.8,
\* and its sheet is 'processed' with that confidence stored.
C1_Witness ==
  \E p \in Procs :
    /\ procs[p].pc = "resolved"
    /\ IsNull(procs[p].error)
    /\ procs[p].result # Null
    /\ Get(procs[p].result).confidence = 80000
    /\ RowOf(p).status = "processed"
    /\ RowOf(p).confidence = Some(80000)

\* C2: once a sheet's status is processed, review_needed or failed, no step of
\* any pipeline changes it (PATCH is not part of the specification this is
\* checked under).
C2_TerminalIsFinal ==
  [][ \A s \in Sheets :
        omrSheets[s].status \in TerminalStatuses =>
          omrSheets'[s].status = omrSheets[s].status ]_vars

\* C3: an invocation made on a sheet whose status is terminal ends rejected with
\* AlreadyProcessedError, and no step of it changes any stored field of the
\* sheet.  (In SpecInvoke an invocation that stands at "start" while the status
\* is terminal was made on a terminal sheet.)
C3_ReprocessRejected ==
  [][ \A p \in Procs :
        ( /\ procs[p].pc = "start"
          /\ RowOf(p).status \in TerminalStatuses
          /\ procs'[p] # procs[p] ) =>
          /\ omrSheets' = omrSheets
          /\ procs'[p].pc = "rejected"
          /\ procs'[p].error = Some("AlreadyProcessedError") ]_vars

\* C4: a sheet whose status was written to 'processing' eventually has a
\* terminal status.
C4_ReachesTerminal ==
  \A s \in 1..MaxSheets :
    [](( s \in Sheets /\ omrSheets[s].status = "processing" )
         => <>( s \in Sheets /\ omrSheets[s].status \in TerminalStatuses ))

\* C5: an error caught in the pipeline ends with the update to 'failed' stored,
\* the error's message in metadata.error, and the promise resolved.
C5_ErrorsEndFailed ==
  [][ \A p \in Procs :
        ( procs[p].pc = "catch" /\ procs'[p].pc # "catch" ) =>
          /\ procs'[p].pc = "resolved"
          /\ RowAfter(p).status = "failed"
          /\ RowAfter(p).metadata # Null
          /\ Get(RowAfter(p).metadata).error = procs[p].error ]_vars

\* C6: when the source file is missing at the test, the invocation goes to the
\* catch block with 'File not found' without running detection and without
\* touching the table; the update it then stores sets status 'failed' and
\* metadata { error: 'File not found', processingTime: the elapsed time } and
\* leaves overallScore, confidence, responses, processingTime and processedAt
\* as they were; an invocation that failed this way never holds a detection
\* result.
C6_FileNotFound ==
  [][ \A p \in Procs :
        /\ ( /\ procs[p].pc = "check"
             /\ procs[p].filePath \notin files
             /\ procs'[p] # procs[p] ) =>
             /\ procs'[p].pc = "catch"
             /\ procs'[p].error = Some("File not found")
             /\ IsNull(procs'[p].result)
             /\ omrSheets' = omrSheets
        /\ ( /\ procs[p].error = Some("File not found")
             /\ Lands(p, "catch", "resolved") ) =>
             /\ RowAfter(p).status = "failed"
             /\ RowAfter(p).metadata # Null
             /\ Get(RowAfter(p).metadata).error = Some("File not found")
             /\ Get(RowAfter(p).metadata).processingTime = procs[p].elapsed
             /\ procs[p].elapsed # Null
             /\ Get(procs[p].elapsed) >= 1
             /\ IsNull(Get(RowAfter(p).metadata).detectedMarks)
             /\ RowAfter(p).overallScore = RowOf(p).overallScore
             /\ RowAfter(p).confidence = RowOf(p).confidence
             /\ RowAfter(p).responses = RowOf(p).responses
             /\ RowAfter(p).processingTime = RowOf(p).processingTime
             /\ RowAfter(p).processedAt = RowOf(p).processedAt
        /\ ( procs'[p].error = Some("File not found") ) =>
             IsNull(procs'[p].result) ]_vars

\* A pipeline found its file missing and has resolved; its sheet is 'failed'
\* with the cause recorded and no score, confidence or responses.
C6_Witness ==
  \E p \in Procs :
    /\ procs[p].pc = "resolved"
    /\ procs[p].error = Some("File not found")
    /\ RowOf(p).status = "failed"
    /\ RowOf(p).metadata # Null
    /\ Get(RowOf(p).metadata).error = Some("File not found")
    /\ IsNull(RowOf(p).overallScore)
    /\ IsNull(RowOf(p).confidence)
    /\ IsNull(RowOf(p).responses)

\* C7: the isComplete of a processing-status response (of a batch that has
\* sheets) is true exactly when the response counts no sheet as pending or
\* processing.
C7_CompletionFlag ==
  ( response.kind = "processing-status" /\ response.totalSheets > 0 ) =>
    ( response.isComplete <=>
        DOMAIN response.statusCounts \cap {"pending", "processing"} = {} )

\* The mean of the values of the answered entries of a list (in 1/100).
MeanOfPresent(values) ==
  LET present == SelectSeq(values, LAMBDA v : ~IsNull(v))
  IN MathRound(100 * SumSeq([i \in 1..Len(present) |-> Get(present[i])]),
               Len(present))

\* C8: the averageScore of a results response is the mean of overallScore over
\* the response's sheets whose status is processed or review_needed (0 when
\* there is none).
C8_AverageOverScored ==
  response.kind = "results" =>
    response.averageScore =
      RoundedMeanScore(SelectSeq(response.sheets,
                         LAMBDA sh : sh.status \in {"processed", "review_needed"}))

\* The rows that are not 'failed'.
NotFailed(rows) == SelectSeq(rows, LAMBDA row : row.status # "failed")

\* C9: failed sheets count in totalSheets but change no reported average: the
\* averageScore a summary endpoint answers is the one it would answer with the
\* failed sheets left out.
C9_FailedExcluded ==
  [][ /\ ( response' # response /\ response'.kind = "results" ) =>
           LET sheets == OmrSheetsByBatch(CHOOSE b \in BatchIdsByCode(response'.batchCode) : TRUE)
           IN /\ response'.totalSheets = Len(sheets)
              /\ response'.averageScore =
                   BatchResults(response'.batchCode, NotFailed(sheets)).averageScore
      /\ ( response' # response /\ response'.kind = "stats" ) =>
           /\ response'.totalSheets = Len(omrSheets)
           /\ response'.averageScore = SystemStats(NotFailed(omrSheets)).averageScore
    ]_vars

\* C10: the overall score is the mean over the answered questions only, in
\* OMRUtils.calculateOverallScore (for a list with an answered question) and in
\* the detector's own aggregation.
C10_MeanOfAnswered ==
  /\ ( utilOutput # Null /\ \E i \in 1..Len(utilInput) : utilInput[i] # Null ) =>
       Get(utilOutput) = MeanOfPresent(utilInput)
  /\ \A result \in DetectionResults :
       result.overallScore =
         MeanOfPresent([i \in 1..Len(result.responses) |->
                          Some(result.responses[i].response)])

PixelsIn(image, region) ==
  { pp \in (0..(image.width - 1)) \X (0..(image.height - 1)) :
      /\ region.x <= pp[1] /\ pp[1] < region.x + region.width
      /\ region.y <= pp[2] /\ pp[2] < region.y + region.height }

DarkPixelsIn(image, region) ==
  { pp \in PixelsIn(image, region) :
      LET first == 4 * (pp[2] * image.width + pp[1])
      IN image.data[first + 1] + image.data[first + 2] + image.data[first + 3]
           < 3 * 128 }

\* The fill ratio of a region: <<dark pixels, pixels>> of its part in the image.
FillOf(image, region) ==
  <<Cardinality(DarkPixelsIn(image, region)), Cardinality(PixelsIn(image, region))>>

\* fill > 0.3, for a fill <<dark, pixels>> (0 when there is no pixel).
ClearsThreshold(fill) == 10 * fill[1] > 3 * fill[2]

\* fill a exceeds fill b by more than 0.1.
ExceedsByMargin(a, b) ==
  /\ a[2] > 0
  /\ IF b[2] = 0 THEN 10 * a[1] > a[2]
     ELSE 10 * (a[1] * b[2] - b[1] * a[2]) > a[2] * b[2]

\* The positions, in the flat array detectMarks returns, of the marks of the
\* template's question q.
RECURSIVE MarksBefore(_, _)
MarksBefore(template, q) ==
  IF q = 1 THEN 0
  ELSE MarksBefore(template, q - 1) + Len(template.questions[q - 1].marks)

PositionsOf(template, q) ==
  { MarksBefore(template, q) + m : m \in 1..Len(template.questions[q].marks) }

\* The template's mark that position i of the returned array belongs to.
TemplateMarkAt(template, i) ==
  LET q == CHOOSE k \in 1..Len(template.questions) : i \in PositionsOf(template, k)
  IN template.questions[q].marks[i - MarksBefore(template, q)]

\* C12: in what detectMarks returns, a mark is reported as filled only if its
\* region is the only one of its question that clears the fill threshold 0.3
\* and its fill ratio exceeds that of every other region of the question by
\* more than 0.1; so no question has two marks reported as filled.
C12_OneSelectionPerQuestion ==
  ( call # Null /\ Get(call).method = "detectMarks" ) =>
    LET template == Get(call).template
        marks == Get(returned)
        fill(i) == FillOf(imageData, TemplateMarkAt(template, i))
    IN \A q \in 1..Len(template.questions) :
         /\ Cardinality({ i \in PositionsOf(template, q) : marks[i].filled }) <= 1
         /\ \A i \in PositionsOf(template, q) :
              marks[i].filled =>
                /\ ClearsThreshold(fill(i))
                /\ \A j \in PositionsOf(template, q) \ {i} :
                     /\ ~ClearsThreshold(fill(j))
                     /\ ExceedsByMargin(fill(i), fill(j))

\* C13: every mark detectMarks returns has confidence min(1, 2 * fillRatio) and
\* is flagged filled exactly when fillRatio > 0.3; fillRatio and confidence lie
\* in [0, 1]; of two marks the one with the larger fillRatio has no smaller
\* confidence.
C13_ConfidenceFromFill ==
  ( call # Null /\ Get(call).method = "detectMarks" ) =>
    LET template == Get(call).template
        marks == Get(returned)
        fill(i) == FillOf(imageData, TemplateMarkAt(template, i))
        LessEq(a, b) == a.num * b.den <= b.num * a.den
    IN \A i \in 1..Len(marks) :
         /\ 0 <= fill(i)[1] /\ fill(i)[1] <= fill(i)[2]
         /\ marks[i].confidence.den > 0
         /\ 0 <= marks[i].confidence.num
         /\ marks[i].confidence.num <= marks[i].confidence.den
         /\ IF fill(i)[2] = 0
            THEN marks[i].confidence.num = 0
            ELSE IF 2 * fill(i)[1] >= fill(i)[2]
            THEN marks[i].confidence.num = marks[i].confidence.den
            ELSE marks[i].confidence.num * fill(i)[2]
                   = 2 * fill(i)[1] * marks[i].confidence.den
         /\ marks[i].filled <=> 10 * fill(i)[1] > 3 * fill(i)[2]
         /\ \A j \in 1..Len(marks) :
              fill(i)[1] * fill(j)[2] <= fill(j)[1] * fill(i)[2]
                /\ fill(i)[2] > 0 /\ fill(j)[2] > 0
                => LessEq(marks[i].confidence, marks[j].confidence)

\* detectMarks has returned a mark whose fill ratio is exactly 0.3 (3 dark
\* pixels of 10): not filled, confidence 0.6.
C13_Witness ==
  /\ call # Null
  /\ Get(call).method = "detectMarks"
  /\ \E i \in 1..Len(Get(returned)) :
       /\ FillOf(imageData, TemplateMarkAt(Get(call).template, i)) = <<3, 10>>
       /\ ~Get(returned)[i].filled
       /\ Get(returned)[i].confidence = [ num |-> 3, den |-> 5 ]

\* C14: calculateFillPercentage returns the number of in-bounds pixels of the
\* rectangle with brightness below 128 divided by the number of in-bounds
\* pixels of the rectangle, and 0 when the rectangle has no in-bounds pixel.
C14_FillOverInBounds ==
  ( call # Null /\ Get(call).method = "calculateFillPercentage" ) =>
    LET fill == FillOf(imageData, Get(call).region)
        ratio == Get(returned)
    IN /\ ratio.den > 0
       /\ IF fill[2] = 0 THEN ratio.num = 0
          ELSE ratio.num * fill[2] = fill[1] * ratio.den

\* calculateFillPercentage was called with a rectangle that sticks out of the
\* image at the top left and has dark and light pixels inside the image, and
\* returned a ratio strictly between 0 and 1 over the in-bounds pixels.
C14_Witness ==
  /\ call # Null
  /\ Get(call).method = "calculateFillPercentage"
  /\ Get(call).region.x < 0
  /\ Get(call).region.y < 0
  /\ LET fill == FillOf(imageData, Get(call).region)
     IN /\ 0 < fill[1] /\ fill[1] < fill[2]
        /\ fill[2] < Get(call).region.width * Get(call).region.height
        /\ Get(returned).num * fill[2] = fill[1] * Get(returned).den

\* C15: the status of a sheet is written only by a step of the pipeline that
\* the upload started for the sheet, and a status that is terminal is not
\* written again (one terminal write per sheet), PATCH requests included
\* among the interleaved operations.
C15_SingleStatusWriter ==
  [][ \A s \in Sheets :
        omrSheets'[s].status # omrSheets[s].status =>
          /\ \E p \in Procs : procs[p].sheetId = s /\ procs'[p] # procs[p]
          /\ omrSheets[s].status \notin TerminalStatuses ]_vars

\* C16: a step of the pipeline of sheet s changes no row but that of s, and
\* whatever the other pipelines do, a sheet whose pipeline has resolved holds
\* the outcome of its own pipeline: its own result's status, score, confidence
\* and responses, or 'failed' with its own error.
C16_PipelinesIsolated ==
  /\ [][ \A p \in Procs :
           procs'[p] # procs[p] =>
             \A t \in Sheets \ {procs[p].sheetId} : omrSheets'[t] = omrSheets[t] ]_vars
  /\ [](\A p \in Procs :
          procs[p].pc = "resolved" =>
            IF IsNull(procs[p].error)
            THEN LET result == Get(procs[p].result)
                 IN /\ RowOf(p).status =
                         (IF result.confidence >= 80000 THEN "processed"
                          ELSE "review_needed")
                    /\ RowOf(p).overallScore = Some(result.overallScore)
                    /\ RowOf(p).confidence = Some(result.confidence)
                    /\ RowOf(p).responses = Some(result.responses)
            ELSE /\ RowOf(p).status = "failed"
                 /\ Get(RowOf(p).metadata).error = procs[p].error
                 /\ IsNull(RowOf(p).overallScore)
                 /\ IsNull(RowOf(p).responses))

\* Two pipelines of one upload have resolved, one failed and one processed,
\* and each sheet holds its own outcome.
C16_Witness ==
  \E p, q \in Procs :
    /\ procs[p].sheetId # procs[q].sheetId
    /\ procs[p].pc = "resolved" /\ procs[p].error # Null
    /\ procs[q].pc = "resolved" /\ IsNull(procs[q].error)
    /\ RowOf(p).status = "failed"
    /\ RowOf(q).status = "processed"

\* C17: the upload handler answers 201 in the step that starts the last
\* pipeline, without waiting for any pipeline: once all files of a request have
\* their sheets, the 201 is sent; and in every state after it, whatever the
\* pipelines have done to the stored rows by then, the response lists one
\* sheet per file, each as inserted: status 'pending', no score, no result.
C17_UploadDoesNotWait ==
  \A r \in Uploads :
    LET req == uploads[r]
    IN /\ ( Len(req.files) > 0 /\ Len(req.uploadedSheets) = Len(req.files) )
            => req.res = Some(201)
       /\ req.res = Some(201) =>
            /\ Len(req.uploadedSheets) = Len(req.files)
            /\ \A k \in 1..Len(req.uploadedSheets) :
                 /\ req.uploadedSheets[k].status = "pending"
                 /\ IsNull(req.uploadedSheets[k].overallScore)
                 /\ IsNull(req.uploadedSheets[k].confidence)
                 /\ IsNull(req.uploadedSheets[k].responses)
                 /\ IsNull(req.uploadedSheets[k].processedAt)

\* The 201 of an upload of two files has been sent and neither pipeline has
\* taken a step.
C17_Witness ==
  \E r \in Uploads :
    /\ uploads[r].res = Some(201)
    /\ Len(uploads[r].uploadedSheets) = 2
    /\ Len(procs) = 2
    /\ \A p \in Procs : procs[p].pc = "start" /\ RowOf(p).status = "pending"

\* C18: a sheet goes pending -> processing -> terminal: every step that gives
\* a sheet a terminal status finds it in 'processing'; and a pipeline passes
\* the write of 'processing', the file check, detection and the terminal write
\* in this order.
C18_StatusOrder ==
  [][ /\ \A s \in Sheets :
           ( omrSheets'[s].status \in TerminalStatuses
             /\ omrSheets[s].status \notin TerminalStatuses )
             => omrSheets[s].status = "processing"
      /\ \A p \in Procs :
           /\ procs'[p].pc = "check" => procs[p].pc \in {"delay", "check"}
           /\ procs'[p].pc = "detect" => procs[p].pc \in {"check", "detect"}
           /\ procs'[p].pc = "write" => procs[p].pc \in {"detect", "write"}
    ]_vars

\* C19: the update that gives a sheet a terminal status records the processing
\* duration; when the status is processed or review_needed it also sets
\* processedAt, and when it is failed it sets no processedAt.
C19_TerminalStamps ==
  [][ \A p \in Procs :
        ( Lands(p, "write", "resolved") \/ Lands(p, "catch", "resolved") ) =>
          /\ RowAfter(p).status \in TerminalStatuses
          /\ RowAfter(p).metadata # Null
          /\ Get(RowAfter(p).metadata).processingTime # Null
          /\ RowAfter(p).status \in {"processed", "review_needed"}
               => RowAfter(p).processedAt = Some(now)
          /\ RowAfter(p).status = "failed"
               => RowAfter(p).processedAt = RowOf(p).processedAt ]_vars

\* C20: detection is a function of its input: two invocations of the pipeline
\* on the same file that both hold a detection result hold the same responses,
\* overall score and overall confidence, and so decide the same status.
C20_DetectionDeterministic ==
  \A p, q \in Procs :
    ( /\ procs[p].filePath = procs[q].filePath
      /\ procs[p].result # Null
      /\ procs[q].result # Null ) =>
      /\ Get(procs[p].result).responses = Get(procs[q].result).responses
      /\ Get(procs[p].result).overallScore = Get(procs[q].result).overallScore
      /\ Get(procs[p].result).confidence = Get(procs[q].result).confidence

\* C21: preprocessImage of an image whose width or height is 0 fails with
\* InvalidImageError before any step has run, and preprocessImage of an image
\* with positive width and height fails at no step.
C21_ZeroSizeRejected ==
  ( call # Null /\ Get(call).method = "preprocessImage" ) =>
    IF Get(call).image.width = 0 \/ Get(call).image.height = 0
    THEN /\ returned = Some([ error |-> "InvalidImageError" ])
         /\ imageData = NoImage
    ELSE returned # Null => "error" \notin DOMAIN Get(returned)

\* C22: after the grayscale conversion every pixel has R = G = B = the rounded
\* luminance 0.299 R0 + 0.587 G0 + 0.114 B0 of its own original channels, a
\* value in 0..255, and its original alpha.
C22_Grayscale ==
  PreprocessAt("contrast") =>
    LET source == Get(call).image.data
    IN /\ Len(imageData.data) = Len(source)
       /\ \A k \in 0..(Get(call).image.width * Get(call).image.height - 1) :
            LET gray == imageData.data[4 * k + 1]
                luminance == 299 * source[4 * k + 1] + 587 * source[4 * k + 2]
                               + 114 * source[4 * k + 3]
            IN /\ imageData.data[4 * k + 2] = gray
               /\ imageData.data[4 * k + 3] = gray
               /\ gray \in 0..255
               /\ 1000 * gray <= luminance + 500
               /\ luminance + 500 < 1000 * gray + 1000
               /\ imageData.data[4 * k + 4] = source[4 * k + 4]

\* The conversion has turned a pixel (200, 100, 50, alpha 77) into
\* (124, 124, 124, alpha 77).
C22_Witness ==
  /\ PreprocessAt("contrast")
  /\ \E k \in 0..(Get(call).image.width * Get(call).image.height - 1) :
       /\ [c \in 1..4 |-> Get(call).image.data[4 * k + c]] = <<200, 100, 50, 77>>
       /\ [c \in 1..4 |-> imageData.data[4 * k + c]] = <<124, 124, 124, 77>>

\* The 3x3 box blur of an image read from a snapshot of it: every interior
\* pixel's colour channels become the mean of the snapshot's neighbourhood,
\* border pixels and every alpha stay.
BlurOfSnapshot(image) ==
  [ image EXCEPT !.data =
      [i \in 1..Len(@) |->
         LET c == (i - 1) % 4
             x == ((i - 1) \div 4) % image.width
             y == ((i - 1) \div 4) \div image.width
         IN IF /\ c < 3
               /\ x >= 1 /\ x <= image.width - 2
               /\ y >= 1 /\ y <= image.height - 2
            THEN MathRound(NeighbourhoodSum(image.data, image.width, x, y, c), 9)
            ELSE @[i]] ]

\* C23: noise reduction returns the 3x3 box blur of its input as the input was
\* when the step started; border pixels and alpha values are unchanged.
C23_BlurOfInput ==
  PreprocessAt("returned") =>
    Get(returned) =
      BlurOfSnapshot(EnhanceContrast(ConvertToGrayscale(Get(call).image)))

\* The sheets inserted for the files of upload request r.
SheetsOfUpload(r) ==
  { s \in Sheets : \E k \in 1..Len(uploads[r].files) :
                     omrSheets[s].filePath = uploads[r].files[k] }

\* C24: uploads for the same batch code that are in flight together all
\* succeed with one batch between them: each request that carries files is
\* answered 201 and every file of it has a sheet of that batch whose pipeline
\* was started; in every state a batch code has at most one batch.
C24_ConcurrentUploadsShareBatch ==
  /\ \A code \in BatchCodes : Cardinality(BatchIdsByCode(code)) <= 1
  /\ \A r \in Uploads :
       ( uploads[r].pc = "done" /\ Len(uploads[r].files) > 0 ) =>
         /\ uploads[r].res = Some(201)
         /\ \A k \in 1..Len(uploads[r].files) :
              \E s \in SheetsOfUpload(r) :
                /\ omrSheets[s].filePath = uploads[r].files[k]
                /\ omrSheets[s].batchId \in BatchIdsByCode(uploads[r].batchCode)
                /\ \E p \in Procs : procs[p].sheetId = s

\* C25: once the uploads are answered, the totalSheets stored in a batch
\* record is the number of sheets that belong to the batch.
C25_TotalSheetsIsSheetCount ==
  ( \A r \in Uploads : uploads[r].pc = "done" ) =>
    \A b \in 1..Len(batches) :
      batches[b].totalSheets = Len(OmrSheetsByBatch(b))

C27_ProcessedAtStamp ==
  /\ [](\A s \in Sheets :
          omrSheets[s].status = "processed" => omrSheets[s].processedAt # Null)
  /\ [][\A s \in Sheets :
          /\ ( omrSheets[s].status # "processed"
               /\ omrSheets'[s].status = "processed" ) =>
               omrSheets'[s].processedAt = Some(now)
          /\ omrSheets'[s].processedAt # omrSheets[s].processedAt =>
               /\ omrSheets'[s].status = "processed"
               /\ omrSheets'[s].processedAt = Some(now)]_vars

\* A sheet that a pipeline made 'processed' was then set to 'archived' by a
\* PATCH: it keeps the stamp of the pipeline.
C27_Witness ==
  /\ patches > 0
  /\ \E p \in Procs :
       /\ procs[p].pc = "resolved"
       /\ omrSheets[procs[p].sheetId].status = "archived"
       /\ omrSheets[procs[p].sheetId].processedAt # Null

\* C28: in every reachable state every sheet's status is one of pending,
\* processing, processed, review_needed, failed.
C28_StatusInFive ==
  \A s \in Sheets : omrSheets[s].status \in SheetStatuses

\* C29: once the page polls a batch all of whose sheets are terminal, it
\* eventually has received isComplete = true, has set isProcessing to false
\* (the polling has stopped) and has announced 'Processing Complete'.
C29_PollingStops ==
  ( /\ PollingEnabled
    /\ \A b \in BatchIdsByCode(Get(page.processingBatch)) :
         /\ Len(OmrSheetsByBatch(b)) > 0
         /\ \A i \in 1..Len(OmrSheetsByBatch(b)) :
              OmrSheetsByBatch(b)[i].status \in TerminalStatuses )
    ~> ( /\ ~page.isProcessing
         /\ page.processingStatus # Null
         /\ Get(page.processingStatus).isComplete
         /\ "Processing Complete" \in page.toasts )

\* C30: an upload request answered 400 or 500 has left the stored state as
\* it found it: no sheet was inserted for any of its files, no pipeline was
\* started for them, and the batch of its code, if there is one, is a batch
\* that another request found or created.
C30_FailedUploadLeavesNothing ==
  \A r \in Uploads :
    uploads[r].res \in {Some(400), Some(500)} =>
      /\ SheetsOfUpload(r) = {}
      /\ \A p \in Procs, k \in 1..Len(uploads[r].files) :
           procs[p].filePath # uploads[r].files[k]
      /\ \A b \in BatchIdsByCode(uploads[r].batchCode) :
           \E q \in Uploads \ {r} : uploads[q].batch = Some(b)

====
